---------------------------- MODULE Spec2Model ----------------------------
(***************************************************************************)
(* A model of the event-triggered capture and alert-logging engine of      *)
(* video_analyzer:                                                         *)
(*   - VideoRecorder (src/capture_video.py): per-camera ring buffer,       *)
(*     recording and snapshot state machine;                               *)
(*   - write_json_log (src/video_analyzer.py): the JSON-array log file;    *)
(*   - tiler_sink_pad_buffer_probe (src/video_analyzer.py): the per-batch  *)
(*     decision between an EVENT record, a METRIC record and nothing.      *)
(* Time is counted in whole seconds; time.time() is taken to be            *)
(* non-decreasing.  A frame is identified by its arrival number.           *)
(***************************************************************************)
EXTENDS Integers, Sequences, FiniteSets, TLC

VARIABLES
    vr,         \* the VideoRecorder object (its fields) and what it has written
    now,        \* the wall clock, time.time(), in seconds
    nframes,    \* number of frames passed to add_frame so far
    rec_start,  \* history: <<nframes>> at the moment the current output was opened
    bursts,     \* history: clock times at which a snapshot burst started
    extended,   \* history: the current output was extended by a later trigger
    file,       \* the characters of detection_log.json
    log_init,   \* history: the log file as write_json_log first found it
    logged,     \* history: the records of the completed write_json_log calls
    th,         \* per thread: where it stands inside write_json_log
    cam,        \* the camera whose batches the probe is followed on
    last_heartbeat_time,  \* per camera, 0 when the dict has no entry
    last_alert_time,      \* per camera, 0 when the dict has no entry
    out,        \* the payload the last batch handed to write_json_log, if any
    nbatch,     \* number of batches the probe has processed
    hb_times,   \* history: the clock at each METRIC emission
    sup_times,  \* history: the clock at each EVENT that found a heartbeat due
    batch,      \* history: what the last batch held (objects, gate passed, is_event)
    env,        \* the surroundings of a run: the date and what storage does
    ev_times,   \* history: the clock at each EVENT emission
    trig_calls, \* history: the calls of trigger_recording the probe has made
    phase,      \* "playing" while the main loop runs, "terminated" after main returns
    inp,        \* the arguments a function is evaluated on (camera, datetime, objects)
    res,        \* what it returned, NoResult before the evaluation
    lock,       \* VideoRecorder.lock: "free" or the thread that holds it
    rpc,        \* per thread: where it stands inside add_frame / trigger_recording
    vr0,        \* per thread: the recorder as its current call found it
    targs       \* per thread: the arguments of its current call

recVars == <<vr, now, nframes, rec_start, extended, bursts>>
logVars == <<file, log_init, logged, th>>
probeVars == <<cam, last_heartbeat_time, last_alert_time, out, nbatch,
               hb_times, sup_times, batch, env, ev_times, trig_calls, phase>>
evalVars == <<inp, res>>
lockVars == <<lock, rpc, vr0, targs>>

----------------------------------------------------------------------------
(* Bounds of the model *)

MaxBuf == 2        \* largest buffer_seconds*fps tried
MaxPost == 2       \* largest post_event_seconds*fps tried
MaxFrames == 4     \* add_frame calls in one run
MaxTime == 4       \* seconds of wall clock in one run
T0 == 100          \* the clock at construction (time.time() is far from 0)
MaxRecords == 3    \* write_json_log calls in one run
NThreads == 2      \* threads calling write_json_log (streaming thread, main loop)
MaxBatches == 3    \* batches of one camera in one run
MaxArtTime == 1    \* seconds followed when file paths are compared
MaxSource == 4     \* largest source index a bus message names
MaxDets == 2       \* objects in one frame's object list
MaxProbeTime == 60 \* seconds of wall clock in one run of the probe

(* Program constants *)

SNAPSHOT_COOLDOWN == 3     \* self.snapshot_cooldown
SNAPSHOT_SEQ_FRAMES == 2   \* self.snapshot_frames_left = 2
BUFFER_SECONDS == 3        \* VideoRecorder(buffer_seconds=3)
POST_EVENT_SECONDS == 5    \* VideoRecorder(post_event_seconds=5)
FPS == 15                  \* VideoRecorder(fps=15)
HEARTBEAT_INTERVAL == 60
ALERT_COOLDOWN == 5
BOSS_CABIN_OPEN_HOUR == 15
BOSS_CABIN_CLOSE_HOUR == 16
OFFICE_OPEN_HOUR == 9
OFFICE_OPEN_MIN == 30
OFFICE_CLOSE_HOUR == 18
OFFICE_CLOSE_MIN == 15
SUNDAY == 6                \* datetime.weekday() of a Sunday

\* the trigger tags handed to trigger_recording
AlertTypes == {<<"FIRE_SMOKE_DETECTED">>}

\* What the file system and the video writer can answer to a start of recording.
Outcomes == {"ok", "open_failed", "makedirs_error"}

----------------------------------------------------------------------------
(* Helpers on sequences *)

\* <<a, a+1, ..., b>> (empty when b < a)
Range(a, b) == [i \in 1..(IF b >= a THEN b - a + 1 ELSE 0) |-> a + i - 1]

Min(a, b) == IF a <= b THEN a ELSE b

\* The most recent min(n, cap) of the frames 1..n, oldest first.
MostRecent(n, cap) == Range(n - Min(n, cap) + 1, n)

----------------------------------------------------------------------------
(* VideoRecorder *)

\* VideoRecorder.__init__
NewRecorder(buffer_len, post_frames) ==
    [ buffer_len |-> buffer_len,
      post_frames |-> post_frames,
      frame_buffer |-> <<>>,
      is_recording |-> FALSE,
      remaining_frames_to_record |-> 0,
      active_writer |-> "None",
      active_filename |-> <<>>,
      snapshot_frames_left |-> 0,
      last_alert_types |-> <<>>,
      last_snapshot_time |-> 0,
      written |-> <<>>,
      images |-> <<>> ]

\* mutant of DequeAppend: a buffer that never evicts
DequeAppend_unbounded(buf, maxlen, f) == Append(buf, f)

\* deque(maxlen=buffer_len).append
DequeAppend(buf, maxlen, f) ==
    IF maxlen = 0 THEN <<>>
    ELSE IF Len(buf) >= maxlen THEN Append(Tail(buf), f)
    ELSE Append(buf, f)

\* VideoRecorder._save_snapshot / capture_image.capture_frame: one image on disk
save_snapshot(r, frame, suffix_tag) ==
    [r EXCEPT !.images =
        Append(@, [frame |-> frame, label |-> suffix_tag,
                   tags |-> r.last_alert_types])]

\* mutant of stop_recording: the writer is not released
stop_recording_keeps_writer(r) ==
    [r EXCEPT !.is_recording = FALSE]

\* VideoRecorder._stop_recording
stop_recording(r) ==
    [r EXCEPT !.is_recording = FALSE,
              !.active_writer = "None"]

\* the recording part of add_frame (lines 53-60)
add_frame_record(r, f) ==
    IF r.is_recording
    THEN LET w == IF r.active_writer = "Open"
                  THEN [r EXCEPT !.written = Append(@, f)]
                  ELSE r
             d == [w EXCEPT !.remaining_frames_to_record = @ - 1]
         IN IF d.remaining_frames_to_record <= 0 THEN stop_recording(d) ELSE d
    ELSE r

\* mutant of add_frame_snapshot: the pending counter is not decremented
add_frame_snapshot_keeps_counter(r, f) ==
    IF r.snapshot_frames_left > 0
    THEN save_snapshot(r, f, "seq")
    ELSE r

\* the snapshot part of add_frame (lines 62-65)
add_frame_snapshot(r, f) ==
    IF r.snapshot_frames_left > 0
    THEN [save_snapshot(r, f, "seq") EXCEPT !.snapshot_frames_left = @ - 1]
    ELSE r

\* VideoRecorder.add_frame
add_frame(r, f) ==
    LET b == [r EXCEPT !.frame_buffer = DequeAppend(@, r.buffer_len, f)]
    IN add_frame_snapshot(add_frame_record(b, f), f)

\* mutant of snapshot_due: the cooldown compared with >= instead of >
snapshot_due_inclusive(r, snapshot_sequence, current_time) ==
    snapshot_sequence /\ current_time - r.last_snapshot_time >= SNAPSHOT_COOLDOWN

\* the rate limit of the snapshot path (line 82)
snapshot_due(r, snapshot_sequence, current_time) ==
    snapshot_sequence /\ current_time - r.last_snapshot_time > SNAPSHOT_COOLDOWN

\* mutant of trigger_snapshot: last_snapshot_time is stamped by every call
trigger_snapshot_always_stamps(r, snapshot_sequence, current_time) ==
    IF snapshot_due(r, snapshot_sequence, current_time)
    THEN LET n  == Len(r.frame_buffer)
             s0 == [r EXCEPT !.last_snapshot_time = current_time, !.images = <<>>]
             s1 == IF n >= 2
                   THEN save_snapshot(s0, r.frame_buffer[n - 1], "prev")
                   ELSE s0
             s2 == IF n >= 1
                   THEN save_snapshot(s1, r.frame_buffer[n], "curr")
                   ELSE s1
         IN [s2 EXCEPT !.snapshot_frames_left = SNAPSHOT_SEQ_FRAMES]
    ELSE [r EXCEPT !.last_snapshot_time = current_time]

\* the snapshot part of trigger_recording (lines 80-95)
trigger_snapshot(r, snapshot_sequence, current_time) ==
    IF snapshot_due(r, snapshot_sequence, current_time)
    THEN LET n  == Len(r.frame_buffer)
             s0 == [r EXCEPT !.last_snapshot_time = current_time, !.images = <<>>]
             s1 == IF n >= 2
                   THEN save_snapshot(s0, r.frame_buffer[n - 1], "prev")
                   ELSE s0
             s2 == IF n >= 1
                   THEN save_snapshot(s1, r.frame_buffer[n], "curr")
                   ELSE s1
         IN [s2 EXCEPT !.snapshot_frames_left = SNAPSHOT_SEQ_FRAMES]
    ELSE r

\* mutant of trigger_extend: the post-event duration stacked on what remains
trigger_extend_stacking(r) ==
    [r EXCEPT !.remaining_frames_to_record = @ + r.post_frames]

\* the recording part of trigger_recording while recording (lines 98-101)
trigger_extend(r) ==
    [r EXCEPT !.remaining_frames_to_record = r.post_frames]

\* mutant of trigger_start: the pre-event buffer is not dumped to the output
trigger_start_nodrain(r, alert_types, current_time, outcome) ==
    LET a == [r EXCEPT !.is_recording = TRUE,
                       !.remaining_frames_to_record = r.post_frames]
    IN CASE outcome = "makedirs_error" -> a
         [] outcome = "open_failed" ->
                [a EXCEPT !.active_filename = <<current_time, alert_types>>,
                          !.active_writer = "Failed",
                          !.is_recording = FALSE]
         [] OTHER ->
                [a EXCEPT !.active_filename = <<current_time, alert_types>>,
                          !.active_writer = "Open",
                          !.written = <<>>]

\* the recording part of trigger_recording while idle (lines 103-133)
trigger_start(r, alert_types, current_time, outcome) ==
    LET a == [r EXCEPT !.is_recording = TRUE,
                       !.remaining_frames_to_record = r.post_frames]
    IN CASE outcome = "makedirs_error" -> a
         [] outcome = "open_failed" ->
                [a EXCEPT !.active_filename = <<current_time, alert_types>>,
                          !.active_writer = "Failed",
                          !.is_recording = FALSE]
         [] OTHER ->
                [a EXCEPT !.active_filename = <<current_time, alert_types>>,
                          !.active_writer = "Open",
                          !.written = r.frame_buffer]

\* VideoRecorder.trigger_recording
trigger_recording(r, alert_types, snapshot_sequence, current_time, outcome) ==
    LET t == [r EXCEPT !.last_alert_types = alert_types]
        s == trigger_snapshot(t, snapshot_sequence, current_time)
    IN IF s.is_recording
       THEN trigger_extend(s)
       ELSE trigger_start(s, alert_types, current_time, outcome)

----------------------------------------------------------------------------
(* The log file: write_json_log *)

\* The records handed to write_json_log, and json.dump's compact text of each,
\* one character class per element: the EVENT payload carries a triggers list
\* and a detections list, the METRIC payload a detections list, a camera alert
\* an alerts list, so every record holds brackets of its own.
Records == {"EVENT", "METRIC", "CAMERA_OFFLINE", "CAMERA_WARNING"}

json_dump(data) ==
    CASE data = "EVENT"  -> <<"{", "EVENT", "[", "t", "]", "[", "]", "}">>
      [] data = "METRIC" -> <<"{", "METRIC", "[", "]", "}">>
      [] data = "CAMERA_WARNING" -> <<"{", "CAMERA_WARNING", "[", "a", "]", "}">>
      [] OTHER           -> <<"{", "CAMERA_OFFLINE", "[", "a", "]", "}">>

\* str.isspace
isspace(c) == c \in {"\n", " "}

\* the file as the module creates it when it is missing (lines 83-85)
EmptyArray == <<"[", "]">>

\* f.seek(pos); f.write(data) on a file opened 'r+': the characters from pos on
\* are overwritten, the file grows if needed and is never shortened; a gap past
\* the end of the file reads back as NUL characters.  pos counts from 0.
WriteAt(f, pos, data) ==
    LET n == IF pos + Len(data) > Len(f) THEN pos + Len(data) ELSE Len(f)
    IN [i \in 1..n |->
          IF i <= pos THEN (IF i <= Len(f) THEN f[i] ELSE "NUL")
          ELSE IF i <= pos + Len(data) THEN data[i - pos]
          ELSE f[i]]

\* lines 99-110: the largest index below filesize holding ']' (from 0), or -1
find_bracket(f, filesize) ==
    LET hits == {p \in 0..(filesize - 1) : p < Len(f) /\ f[p + 1] = "]"}
    IN IF hits = {} THEN 0 - 1
       ELSE CHOOSE p \in hits : \A q \in hits : q <= p

\* mutant of is_array_empty: the array is never taken to be empty
is_array_empty_never(f, pos) == FALSE

\* lines 121-136: whether the nearest non-space character before pos is '['
is_array_empty(f, pos) ==
    LET seen == {q \in 0..(pos - 1) : q < Len(f) /\ ~isspace(f[q + 1])}
    IN /\ seen # {}
       /\ f[(CHOOSE q \in seen : \A x \in seen : x <= q) + 1] = "["

\* lines 114-118: the fallback, a new array holding the record alone
reset_text(data) == <<"[", "\n">> \o json_dump(data) \o <<"\n", "]">>

\* lines 142-153: the text written over the closing bracket
splice_text(empty, data) ==
    (IF empty THEN <<"\n">> ELSE <<",", "\n">>) \o json_dump(data) \o <<"\n", "]">>

\* write_json_log, run without interference
write_json_log(f, data) ==
    LET pos == find_bracket(f, Len(f))
    IN IF pos < 0
       THEN reset_text(data)
       ELSE WriteAt(f, pos, splice_text(is_array_empty(f, pos), data))

----------------------------------------------------------------------------
(* The decision engine: check_policy_violation and tiler_sink_pad_buffer_probe *)

\* CAMERA_MAP values
Cameras == {"RECEPTION_AREA", "BOSS_CABIN"}

\* mutant of check_policy_violation: the closing minute itself is still inside
\* office hours (> for >= in line 187)
check_policy_violation_late(camera_name, dt) ==
    LET sunday == IF dt.weekday = SUNDAY
                  THEN <<"RESTRICTED_ACCESS_SUNDAY">> ELSE <<>>
        room ==
          IF camera_name = "BOSS_CABIN"
          THEN IF dt.hour < BOSS_CABIN_OPEN_HOUR \/ dt.hour >= BOSS_CABIN_CLOSE_HOUR
               THEN <<"RESTRICTED_ACCESS_BOSS_CABIN">> ELSE <<>>
          ELSE IF dt.hour < OFFICE_OPEN_HOUR
                  \/ (dt.hour = OFFICE_OPEN_HOUR /\ dt.minute < OFFICE_OPEN_MIN)
               THEN <<"RESTRICTED_ACCESS_BEFORE_HOURS">>
               ELSE IF dt.hour > OFFICE_CLOSE_HOUR
                       \/ (dt.hour = OFFICE_CLOSE_HOUR /\ dt.minute > OFFICE_CLOSE_MIN)
                    THEN <<"RESTRICTED_ACCESS_AFTER_HOURS">>
                    ELSE <<>>
    IN sunday \o room

\* check_policy_violation: dt is datetime.now() as [weekday, hour, minute]
check_policy_violation(camera_name, dt) ==
    LET sunday == IF dt.weekday = SUNDAY
                  THEN <<"RESTRICTED_ACCESS_SUNDAY">> ELSE <<>>
        room ==
          IF camera_name = "BOSS_CABIN"
          THEN IF dt.hour < BOSS_CABIN_OPEN_HOUR \/ dt.hour >= BOSS_CABIN_CLOSE_HOUR
               THEN <<"RESTRICTED_ACCESS_BOSS_CABIN">> ELSE <<>>
          ELSE IF dt.hour < OFFICE_OPEN_HOUR
                  \/ (dt.hour = OFFICE_OPEN_HOUR /\ dt.minute < OFFICE_OPEN_MIN)
               THEN <<"RESTRICTED_ACCESS_BEFORE_HOURS">>
               ELSE IF dt.hour > OFFICE_CLOSE_HOUR
                       \/ (dt.hour = OFFICE_CLOSE_HOUR /\ dt.minute >= OFFICE_CLOSE_MIN)
                    THEN <<"RESTRICTED_ACCESS_AFTER_HOURS">>
                    ELSE <<>>
    IN sunday \o room

\* str.lower on the labels the models emit
lower(label) == IF label = "Person" THEN "person" ELSE label

\* a detection as the probe reads it from the object meta
Det(label, negative) == [label |-> label, negative |-> negative]

\* mutant of frame_objects_of: the confidence is not looked at
frame_objects_of_all(objs) == objs

\* lines 250-282: the objects kept, those of non-negative confidence
frame_objects_of(objs) == SelectSeq(objs, LAMBDA o : ~o.negative)

\* mutant of countable: any detection at all opens the gate
countable_any(frame_objects) == frame_objects # <<>>

\* line 285: something countable was detected
countable(frame_objects) ==
    \E i \in DOMAIN frame_objects : lower(frame_objects[i].label) \in {"person", "tv"}

\* line 287
num_people_of(frame_objects) ==
    Len(SelectSeq(frame_objects, LAMBDA o : lower(o.label) = "person"))

\* lines 297-310: the policy tags, then the visual tags
site_alerts_of(camera_name, dt, frame_objects) ==
    check_policy_violation(camera_name, dt)
    \o (IF \E i \in DOMAIN frame_objects : frame_objects[i].label \in {"fire", "smoke"}
        THEN <<"FIRE_SMOKE_DETECTED">> ELSE <<>>)
    \o (IF \E i \in DOMAIN frame_objects : frame_objects[i].label \in {"violence", "fight"}
        THEN <<"VIOLENCE_DETECTED">> ELSE <<>>)

\* mutant of should_log_event: the cooldown is not looked at
should_log_event_nocooldown(is_event, current_time, last_al) == is_event

\* line 316
should_log_event(is_event, current_time, last_al) ==
    is_event /\ current_time - last_al >= ALERT_COOLDOWN

\* mutant of should_log_heartbeat: the heartbeat is due whenever asked
should_log_heartbeat_always(current_time, last_hb) == TRUE

\* line 317
should_log_heartbeat(current_time, last_hb) ==
    current_time - last_hb >= HEARTBEAT_INTERVAL

NoPayload == [type |-> "NONE"]

\* lines 325-338 and 345
event_payload(camera_name, site_alerts, num_people, frame_objects, captured) ==
    [type |-> "EVENT", cam_id |-> camera_name, status |-> "CRITICAL",
     triggers |-> site_alerts, people_count |-> num_people,
     detections |-> frame_objects, capture_triggered |-> captured]

\* lines 353-366
metric_payload(camera_name, num_people, frame_objects) ==
    [type |-> "METRIC", cam_id |-> camera_name, status |-> "SAFE",
     people_count |-> num_people, detections |-> frame_objects]

\* mutant of decide: the two streams are not exclusive and the heartbeat,
\* taken second, is what the batch reports
decide_heartbeat_wins(is_event, current_time, last_al, last_hb) ==
    IF should_log_heartbeat(current_time, last_hb) THEN "METRIC"
    ELSE IF should_log_event(is_event, current_time, last_al) THEN "EVENT"
    ELSE "NONE"

\* lines 315-323 and 349-351: which stream the batch goes to
\* ("EVENT", "METRIC" or "NONE")
decide(is_event, current_time, last_al, last_hb) ==
    IF should_log_event(is_event, current_time, last_al) THEN "EVENT"
    ELSE IF should_log_heartbeat(current_time, last_hb) THEN "METRIC"
    ELSE "NONE"

\* The detection lists tried: nothing, a person, a person and a fire, a fire
\* alone, a person the tracker re-emitted (negative confidence).
ProbeBatches ==
    { <<>>,
      <<Det("person", FALSE)>>,
      <<Det("person", FALSE), Det("fire", FALSE)>>,
      <<Det("fire", FALSE)>>,
      <<Det("person", TRUE)>> }

\* datetime.now() as tried: a weekday inside office hours, and a Sunday noon
ProbeDatetimes ==
    { [weekday |-> 0, hour |-> 15, minute |-> 0],
      [weekday |-> SUNDAY, hour |-> 12, minute |-> 0] }

NoBatch == [objs |-> <<>>, gate |-> FALSE, is_event |-> FALSE]

NoEnv == [today |-> [weekday |-> 0, hour |-> 15, minute |-> 0],
          storage |-> "ok"]

\* the probe part of a specification that does not use the probe
ProbeUnused ==
    /\ cam = "RECEPTION_AREA"
    /\ last_heartbeat_time = [c \in Cameras |-> 0]
    /\ last_alert_time = [c \in Cameras |-> 0]
    /\ out = NoPayload
    /\ nbatch = 0
    /\ hb_times = <<>>
    /\ sup_times = <<>>
    /\ batch = NoBatch
    /\ env = NoEnv
    /\ ev_times = <<>>
    /\ trig_calls = <<>>
    /\ phase = "playing"

\* every camera name the probe can meet: the CAMERA_MAP values and the
\* fallback name of a source that is not in the map
AllCameras == Cameras \cup {"EMPLOYEE_AREA", "CAFETERIA", "UNKNOWN_CAM_4"}

\* lines 246-312: what the probe derives from one frame's object list
analyze(camera_name, dt, objs) ==
    LET fo == frame_objects_of(objs)
        alerts == site_alerts_of(camera_name, dt, fo)
    IN [detections |-> fo,
        gate |-> fo # <<>> /\ countable(fo),
        people_count |-> num_people_of(fo),
        triggers |-> alerts,
        is_event |-> Len(alerts) > 0]

NoResult == [none |-> TRUE]

NoInput == [camera |-> "RECEPTION_AREA",
            dt |-> [weekday |-> 0, hour |-> 15, minute |-> 0],
            objs |-> <<>>]

\* the evaluation part of a specification that evaluates no function
EvalUnused ==
    /\ inp = NoInput
    /\ res = NoResult

Threads == {"adder", "trigger"}

\* the lock part of a specification in which one thread uses the recorder
LockUnused ==
    /\ lock = "free"
    /\ rpc = [t \in Threads |-> "idle"]
    /\ vr0 = [t \in Threads |-> NewRecorder(0, 0)]
    /\ targs = [t \in Threads |-> <<>>]

----------------------------------------------------------------------------
(* Reading the log back: what a JSON parser makes of the file *)

Invalid == <<"INVALID">>

RECURSIVE Strip(_)
\* the file without its insignificant whitespace
Strip(f) ==
    IF f = <<>> THEN <<>>
    ELSE IF isspace(Head(f)) THEN Strip(Tail(f))
    ELSE <<Head(f)>> \o Strip(Tail(f))

\* the text pat stands in s from index i on
MatchAt(s, i, pat) ==
    /\ i + Len(pat) - 1 <= Len(s)
    /\ \A k \in 1..Len(pat) : s[i + k - 1] = pat[k]

RecordsAt(s, i) == {r \in Records : MatchAt(s, i, json_dump(r))}

RECURSIVE ParseTail(_, _, _)
\* after an element: either the closing bracket ends the text, or a comma and
\* one more element follow
ParseTail(s, i, acc) ==
    IF i > Len(s) THEN Invalid
    ELSE IF s[i] = "]" THEN (IF i = Len(s) THEN acc ELSE Invalid)
    ELSE IF s[i] = "," /\ RecordsAt(s, i + 1) # {}
         THEN LET r == CHOOSE x \in RecordsAt(s, i + 1) : TRUE
              IN ParseTail(s, i + 1 + Len(json_dump(r)), Append(acc, r))
    ELSE Invalid

\* the records of the array the file holds, or Invalid when the file is not a
\* JSON array of records
ParseLog(f) ==
    LET s == Strip(f)
    IN IF s = EmptyArray THEN <<>>
       ELSE IF Len(s) >= 2 /\ s[1] = "[" /\ RecordsAt(s, 2) # {}
            THEN LET r == CHOOSE x \in RecordsAt(s, 2) : TRUE
                 IN ParseTail(s, 2 + Len(json_dump(r)), <<r>>)
       ELSE Invalid

WellFormed(f) == ParseLog(f) # Invalid

----------------------------------------------------------------------------
(* Sequential calls of write_json_log on a file found in any condition *)

IdleThread == [pc |-> "idle", pos |-> 0, empty |-> FALSE, data |-> "METRIC"]

NoThread == [p \in 1..NThreads |-> IdleThread]

\* the log part of a specification that does not use the log
LogUnused ==
    /\ file = EmptyArray
    /\ log_init = EmptyArray
    /\ logged = <<>>
    /\ th = NoThread

\* the recorder part of a specification that does not use the recorder
RecUnused ==
    /\ vr = NewRecorder(0, 0)
    /\ now = T0
    /\ nframes = 0
    /\ rec_start = <<>>
    /\ extended = FALSE
    /\ bursts = <<>>

OneMetric == json_dump("METRIC")

\* The log file as a run can find it: fresh, valid from an earlier run, or
\* damaged (empty, cut short, with bytes after the terminator).
InitialFiles ==
    { EmptyArray,
      <<"[", "\n", " ", "]", "\n">>,
      <<"[", "\n">> \o OneMetric \o <<"\n", "]">>,
      <<>>,
      <<"[", "\n">>,
      <<"[", "\n", "{", "METRIC">>,
      <<"[", "\n", "{", "METRIC", "[", "]">>,
      <<"[", "\n">> \o OneMetric \o <<"\n">>,
      <<"[", "\n">> \o OneMetric \o <<"\n", "]", "x">>,
      <<"[", "]", "x", "x", "x", "x", "x", "x", "x", "x", "x", "x", "x", "x">> }

LogInit ==
    /\ file \in InitialFiles
    /\ log_init = file
    /\ logged = <<>>
    /\ th = NoThread
    /\ RecUnused
    /\ ProbeUnused
    /\ EvalUnused
    /\ LockUnused

\* one whole call of write_json_log, nothing else touching the file meanwhile
WriteJsonLog ==
    /\ Len(logged) < MaxRecords
    /\ \E data \in Records :
         /\ file' = write_json_log(file, data)
         /\ logged' = Append(logged, data)
    /\ UNCHANGED <<log_init, th>>
    /\ UNCHANGED recVars
    /\ UNCHANGED probeVars
    /\ UNCHANGED evalVars
    /\ UNCHANGED lockVars

LogNext == WriteJsonLog

----------------------------------------------------------------------------
(* Concurrent calls of write_json_log: the buffer probe runs on the streaming *)
(* thread, bus_call on the main-loop thread, and the function takes no lock.  *)
(* A call is a first scan for the closing bracket, then either truncate and   *)
(* write (the fallback) or a second scan and a write; what f.write buffers    *)
(* reaches the file when the with-block closes it.                            *)

ConcInitialFiles == {EmptyArray, <<>>}

ConcInit ==
    /\ file \in ConcInitialFiles
    /\ log_init = file
    /\ logged = <<>>
    /\ th = NoThread
    /\ RecUnused
    /\ ProbeUnused
    /\ EvalUnused
    /\ LockUnused

CallsBegun == Len(logged) + Cardinality({p \in 1..NThreads : th[p].pc # "idle"})

\* lines 94-110: open the file, seek to its end, scan back for ']'
ScanBracket(p) ==
    /\ th[p].pc = "idle"
    /\ CallsBegun < MaxRecords
    /\ \E data \in Records :
         LET pos == find_bracket(file, Len(file))
         IN th' = [th EXCEPT ![p] =
                     [pc |-> IF pos < 0 THEN "notfound" ELSE "found",
                      pos |-> IF pos < 0 THEN 0 ELSE pos,
                      empty |-> FALSE, data |-> data]]
    /\ UNCHANGED <<file, log_init, logged>>
    /\ UNCHANGED recVars
    /\ UNCHANGED probeVars
    /\ UNCHANGED evalVars
    /\ UNCHANGED lockVars

\* lines 114-115: f.seek(0); f.truncate()
Truncate(p) ==
    /\ th[p].pc = "notfound"
    /\ file' = <<>>
    /\ th' = [th EXCEPT ![p].pc = "resetting"]
    /\ UNCHANGED <<log_init, logged>>
    /\ UNCHANGED recVars
    /\ UNCHANGED probeVars
    /\ UNCHANGED evalVars
    /\ UNCHANGED lockVars

\* lines 116-119: the new array is written and the file closed
FlushReset(p) ==
    /\ th[p].pc = "resetting"
    /\ file' = WriteAt(file, 0, reset_text(th[p].data))
    /\ logged' = Append(logged, th[p].data)
    /\ th' = [th EXCEPT ![p] = IdleThread]
    /\ UNCHANGED log_init
    /\ UNCHANGED recVars
    /\ UNCHANGED probeVars
    /\ UNCHANGED evalVars
    /\ UNCHANGED lockVars

\* lines 121-136: the second scan, for the character before the bracket
CheckEmpty(p) ==
    /\ th[p].pc = "found"
    /\ th' = [th EXCEPT ![p].pc = "ready",
                        ![p].empty = is_array_empty(file, th[p].pos)]
    /\ UNCHANGED <<file, log_init, logged>>
    /\ UNCHANGED recVars
    /\ UNCHANGED probeVars
    /\ UNCHANGED evalVars
    /\ UNCHANGED lockVars

\* lines 138-153: the record is written over the bracket and the file closed
FlushSplice(p) ==
    /\ th[p].pc = "ready"
    /\ file' = WriteAt(file, th[p].pos, splice_text(th[p].empty, th[p].data))
    /\ logged' = Append(logged, th[p].data)
    /\ th' = [th EXCEPT ![p] = IdleThread]
    /\ UNCHANGED log_init
    /\ UNCHANGED recVars
    /\ UNCHANGED probeVars
    /\ UNCHANGED evalVars
    /\ UNCHANGED lockVars

ConcNext ==
    \E p \in 1..NThreads :
        \/ ScanBracket(p)
        \/ Truncate(p)
        \/ FlushReset(p)
        \/ CheckEmpty(p)
        \/ FlushSplice(p)

----------------------------------------------------------------------------
(* The recorder driven by its two callers and the clock *)

RecInit ==
    /\ \E bl \in 0..MaxBuf, pf \in 0..MaxPost : vr = NewRecorder(bl, pf)
    /\ now = T0
    /\ nframes = 0
    /\ rec_start = <<>>
    /\ extended = FALSE
    /\ bursts = <<>>
    /\ LogUnused
    /\ ProbeUnused
    /\ EvalUnused
    /\ LockUnused

\* the streaming thread hands the next frame to add_frame
AddFrame ==
    /\ nframes < MaxFrames
    /\ nframes' = nframes + 1
    /\ vr' = add_frame(vr, nframes + 1)
    /\ UNCHANGED <<now, rec_start, extended, bursts>>
    /\ UNCHANGED logVars
    /\ UNCHANGED probeVars
    /\ UNCHANGED evalVars
    /\ UNCHANGED lockVars

\* the history variables across a call of trigger_recording on recorder r,
\* made when n frames have arrived
TriggerHistory(r, alert_types, snap, outcome, n) ==
    LET t == [r EXCEPT !.last_alert_types = alert_types]
        starts == ~r.is_recording /\ outcome = "ok"
    IN /\ bursts' = IF trigger_snapshot(t, snap, now) # t
                    THEN Append(bursts, now) ELSE bursts
       /\ rec_start' = IF starts THEN <<n>> ELSE rec_start
       /\ extended' = IF starts THEN FALSE
                      ELSE extended \/ (r.is_recording /\ r.active_writer = "Open")

\* an EVENT calls trigger_recording with tags drawn from Tags
TriggerWith(Tags) ==
    /\ \E alert_types \in Tags, snap \in BOOLEAN, outcome \in Outcomes :
         /\ vr' = trigger_recording(vr, alert_types, snap, now, outcome)
         /\ TriggerHistory(vr, alert_types, snap, outcome, nframes)
    /\ UNCHANGED <<now, nframes>>
    /\ UNCHANGED logVars
    /\ UNCHANGED probeVars
    /\ UNCHANGED evalVars
    /\ UNCHANGED lockVars

Trigger == TriggerWith(AlertTypes)

\* time passes
Tick ==
    /\ now < T0 + MaxTime
    /\ now' = now + 1
    /\ UNCHANGED <<vr, nframes, rec_start, extended, bursts>>
    /\ UNCHANGED logVars
    /\ UNCHANGED probeVars
    /\ UNCHANGED evalVars
    /\ UNCHANGED lockVars

RecNext == AddFrame \/ Trigger \/ Tick

\* The recorder of one camera called with the tag lists of two different
\* alerts; res.paths lists the file paths of the recordings opened so far.
AlertTypesTwo == {<<"FIRE_SMOKE_DETECTED">>, <<"VIOLENCE_DETECTED">>}

ArtInit ==
    /\ vr = NewRecorder(MaxBuf, MaxPost)
    /\ now = T0
    /\ nframes = 0
    /\ rec_start = <<>>
    /\ extended = FALSE
    /\ bursts = <<>>
    /\ inp = NoInput
    /\ res = [paths |-> <<>>]
    /\ LogUnused
    /\ ProbeUnused
    /\ LockUnused

ArtTrigger ==
    /\ \E alert_types \in AlertTypesTwo, snap \in BOOLEAN, outcome \in Outcomes :
         /\ vr' = trigger_recording(vr, alert_types, snap, now, outcome)
         /\ TriggerHistory(vr, alert_types, snap, outcome, nframes)
         /\ res' = IF ~vr.is_recording /\ outcome = "ok"
                   THEN [paths |-> Append(res.paths, vr'.active_filename)]
                   ELSE res
    /\ UNCHANGED <<now, nframes, inp>>
    /\ UNCHANGED logVars
    /\ UNCHANGED probeVars
    /\ UNCHANGED lockVars

\* the clock passes to the next second
ArtTick ==
    /\ now < T0 + MaxArtTime
    /\ now' = now + 1
    /\ UNCHANGED <<vr, nframes, rec_start, extended, bursts>>
    /\ UNCHANGED logVars
    /\ UNCHANGED probeVars
    /\ UNCHANGED evalVars
    /\ UNCHANGED lockVars

ArtNext == AddFrame \/ ArtTrigger \/ ArtTick

----------------------------------------------------------------------------
(* The probe followed on one camera: each batch is one pass of the loop body *)
(* of tiler_sink_pad_buffer_probe, with the calls it makes on that camera's   *)
(* recorder and on the log.                                                   *)

\* the instants after the start at which batches arrive: at once, one event
\* cooldown later, one event cooldown short of a heartbeat interval, and one
\* heartbeat interval later
ProbeInstants == {0, ALERT_COOLDOWN, HEARTBEAT_INTERVAL - ALERT_COOLDOWN,
                  HEARTBEAT_INTERVAL}

ProbeInit ==
    /\ cam \in Cameras
    /\ last_heartbeat_time = [c \in Cameras |-> 0]
    /\ last_alert_time = [c \in Cameras |-> 0]
    /\ out = NoPayload
    /\ nbatch = 0
    /\ hb_times = <<>>
    /\ sup_times = <<>>
    /\ batch = NoBatch
    /\ env \in [today : ProbeDatetimes, storage : Outcomes]
    /\ ev_times = <<>>
    /\ trig_calls = <<>>
    /\ phase = "playing"
    /\ vr = NewRecorder(BUFFER_SECONDS * FPS, POST_EVENT_SECONDS * FPS)
    /\ now = T0
    /\ nframes = 0
    /\ rec_start = <<>>
    /\ extended = FALSE
    /\ bursts = <<>>
    /\ LogUnused
    /\ EvalUnused
    /\ LockUnused

\* lines 211-376, one frame_meta of the batch: objs is its object list and
\* conv_ok says whether the frame could be copied for the recorder; dt is
\* datetime.now() and outcome is what a start of recording meets, both the
\* same all through a run
ProbeBatch ==
    /\ phase = "playing"
    /\ nbatch < MaxBatches
    /\ \E objs \in ProbeBatches, conv_ok \in BOOLEAN :
         LET dt == env.today
             outcome == env.storage
             r1 == IF conv_ok THEN add_frame(vr, nframes + 1) ELSE vr
             fo == frame_objects_of(objs)
             gate == fo # <<>> /\ countable(fo)
             alerts == site_alerts_of(cam, dt, fo)
             is_event == Len(alerts) > 0
             last_hb == last_heartbeat_time[cam]
             last_al == last_alert_time[cam]
             d == IF gate THEN decide(is_event, now, last_al, last_hb) ELSE "NONE"
             raised == ~r1.is_recording /\ outcome = "makedirs_error"
             captured == IF raised THEN "absent" ELSE "true"
             payload ==
                 CASE d = "EVENT" ->
                        event_payload(cam, alerts, num_people_of(fo), fo, captured)
                   [] d = "METRIC" -> metric_payload(cam, num_people_of(fo), fo)
                   [] OTHER -> NoPayload
         IN /\ nframes' = IF conv_ok THEN nframes + 1 ELSE nframes
            /\ IF d = "EVENT"
               THEN /\ vr' = trigger_recording(r1, alerts, TRUE, now, outcome)
                    /\ TriggerHistory(r1, alerts, TRUE, outcome,
                                      IF conv_ok THEN nframes + 1 ELSE nframes)
               ELSE /\ vr' = r1
                    /\ UNCHANGED <<bursts, rec_start, extended>>
            /\ last_alert_time' =
                 IF d = "EVENT" THEN [last_alert_time EXCEPT ![cam] = now]
                 ELSE last_alert_time
            /\ last_heartbeat_time' =
                 IF d = "METRIC" THEN [last_heartbeat_time EXCEPT ![cam] = now]
                 ELSE last_heartbeat_time
            /\ out' = payload
            /\ file' = IF d = "NONE" THEN file ELSE write_json_log(file, d)
            /\ logged' = IF d = "NONE" THEN logged ELSE Append(logged, d)
            /\ hb_times' = IF d = "METRIC" THEN Append(hb_times, now) ELSE hb_times
            /\ sup_times' =
                 IF d = "EVENT" /\ now - last_hb >= HEARTBEAT_INTERVAL
                 THEN Append(sup_times, now) ELSE sup_times
            /\ ev_times' = IF d = "EVENT" THEN Append(ev_times, now) ELSE ev_times
            /\ trig_calls' =
                 IF d = "EVENT"
                 THEN Append(trig_calls,
                             [alert_types |-> alerts, snapshot_sequence |-> TRUE,
                              idle |-> ~r1.is_recording, raised |-> raised])
                 ELSE trig_calls
            /\ batch' = [objs |-> objs, gate |-> gate, is_event |-> is_event]
    /\ nbatch' = nbatch + 1
    /\ UNCHANGED <<now, cam, env, phase, log_init, th>>
    /\ UNCHANGED evalVars
    /\ UNCHANGED lockVars

\* time passes between two batches
ProbeTick ==
    /\ phase = "playing"
    /\ \E t \in ProbeInstants :
         /\ t <= MaxProbeTime
         /\ T0 + t > now
         /\ now' = T0 + t
    /\ UNCHANGED <<vr, nframes, rec_start, extended, bursts>>
    /\ UNCHANGED logVars
    /\ UNCHANGED probeVars
    /\ UNCHANGED evalVars
    /\ UNCHANGED lockVars

ProbeNext == ProbeBatch \/ ProbeTick


----------------------------------------------------------------------------
(* check_policy_violation evaluated on every camera name and every weekday, *)
(* hour and minute a datetime can hold.                                      *)

Datetimes == [weekday : 0 .. 6, hour : 0 .. 23, minute : 0 .. 59]

PolicyInit ==
    /\ inp \in [camera : AllCameras, dt : Datetimes, objs : {<<>>}]
    /\ res = NoResult
    /\ RecUnused
    /\ LogUnused
    /\ ProbeUnused
    /\ LockUnused

\* one call of check_policy_violation(camera_name, current_time)
CheckPolicy ==
    /\ res = NoResult
    /\ res' = [alerts |-> check_policy_violation(inp.camera, inp.dt)]
    /\ UNCHANGED inp
    /\ UNCHANGED recVars
    /\ UNCHANGED logVars
    /\ UNCHANGED probeVars
    /\ UNCHANGED lockVars

PolicyNext == CheckPolicy

----------------------------------------------------------------------------
(* The probe's reading of one frame's object list, evaluated on every list *)
(* of up to MaxDets objects.                                               *)

\* obj_label values: what the detector and the two classifiers emit
DetLabels == {"person", "Person", "tv", "fire", "violence", "car"}

Dets == {Det(l, n) : l \in DetLabels, n \in BOOLEAN}

ObjectLists == UNION {[1 .. k -> Dets] : k \in 0 .. MaxDets}

FilterInit ==
    /\ inp \in [camera : Cameras, dt : ProbeDatetimes, objs : ObjectLists]
    /\ res = NoResult
    /\ RecUnused
    /\ LogUnused
    /\ ProbeUnused
    /\ LockUnused

\* lines 246-312 on one frame_meta
Analyze ==
    /\ res = NoResult
    /\ res' = analyze(inp.camera, inp.dt, inp.objs)
    /\ UNCHANGED inp
    /\ UNCHANGED recVars
    /\ UNCHANGED logVars
    /\ UNCHANGED probeVars
    /\ UNCHANGED lockVars

FilterNext == Analyze

----------------------------------------------------------------------------
(* main: the probe runs while the main loop does; then the pipeline is set   *)
(* to NULL and main returns.                                                  *)

\* lines 601-605: loop.run() returns (end of stream, a fatal pipeline error,
\* an interrupt), the pipeline is stopped, the process ends; the recorders are
\* not touched
Shutdown ==
    /\ phase = "playing"
    /\ phase' = "terminated"
    /\ UNCHANGED <<cam, last_heartbeat_time, last_alert_time, out, nbatch,
                   hb_times, sup_times, batch, env, ev_times, trig_calls>>
    /\ UNCHANGED recVars
    /\ UNCHANGED logVars
    /\ UNCHANGED evalVars
    /\ UNCHANGED lockVars

MainNext == ProbeBatch \/ ProbeTick \/ Shutdown

----------------------------------------------------------------------------
(* Two threads on one VideoRecorder: one calls add_frame, the other          *)
(* trigger_recording, each statement group a step of its own between the     *)
(* acquire and the release of VideoRecorder.lock.                             *)

\* mutant of can_acquire: the lock is entered whoever holds it
can_acquire_always(l) == TRUE

\* `with self.lock:` enters when no thread holds the lock
can_acquire(l) == l = "free"

\* lines 104-105
trigger_begin(r) ==
    [r EXCEPT !.is_recording = TRUE,
              !.remaining_frames_to_record = r.post_frames]

\* lines 107-128, the writer opening or not (os.makedirs has succeeded)
trigger_open(r, alert_types, current_time, outcome) ==
    IF outcome = "open_failed"
    THEN [r EXCEPT !.active_filename = <<current_time, alert_types>>,
                   !.active_writer = "Failed",
                   !.is_recording = FALSE]
    ELSE [r EXCEPT !.active_filename = <<current_time, alert_types>>,
                   !.active_writer = "Open",
                   !.written = <<>>]

\* lines 130-133
trigger_drain(r) == [r EXCEPT !.written = @ \o r.frame_buffer]

LockInit ==
    /\ \E bl \in 0 .. MaxBuf, pf \in 0 .. MaxPost : vr = NewRecorder(bl, pf)
    /\ now = T0
    /\ nframes = 0
    /\ rec_start = <<>>
    /\ extended = FALSE
    /\ bursts = <<>>
    /\ LockUnused
    /\ LogUnused
    /\ ProbeUnused
    /\ EvalUnused

\* what a step inside a call leaves alone
LockFrame ==
    /\ UNCHANGED <<now, rec_start, extended, bursts>>
    /\ UNCHANGED logVars
    /\ UNCHANGED probeVars
    /\ UNCHANGED evalVars

\* add_frame, line 49: the lock is taken
AddLock ==
    /\ rpc["adder"] = "idle"
    /\ nframes < MaxFrames
    /\ can_acquire(lock)
    /\ lock' = "adder"
    /\ nframes' = nframes + 1
    /\ rpc' = [rpc EXCEPT !["adder"] = "append"]
    /\ vr0' = [vr0 EXCEPT !["adder"] = vr]
    /\ targs' = [targs EXCEPT !["adder"] = <<nframes + 1>>]
    /\ UNCHANGED vr
    /\ LockFrame

\* add_frame, line 51
AddAppend ==
    /\ rpc["adder"] = "append"
    /\ vr' = [vr EXCEPT !.frame_buffer =
                 DequeAppend(@, vr.buffer_len, targs["adder"][1])]
    /\ rpc' = [rpc EXCEPT !["adder"] = "record"]
    /\ UNCHANGED <<lock, nframes, vr0, targs>>
    /\ LockFrame

\* add_frame, lines 53-60
AddRecord ==
    /\ rpc["adder"] = "record"
    /\ vr' = add_frame_record(vr, targs["adder"][1])
    /\ rpc' = [rpc EXCEPT !["adder"] = "snapshot"]
    /\ UNCHANGED <<lock, nframes, vr0, targs>>
    /\ LockFrame

\* add_frame, lines 62-65
AddSnapshot ==
    /\ rpc["adder"] = "snapshot"
    /\ vr' = add_frame_snapshot(vr, targs["adder"][1])
    /\ rpc' = [rpc EXCEPT !["adder"] = "unlock"]
    /\ UNCHANGED <<lock, nframes, vr0, targs>>
    /\ LockFrame

\* the end of a with block: the lock is released and the call's locals go
Unlock(t) ==
    /\ rpc[t] = "unlock"
    /\ lock' = "free"
    /\ rpc' = [rpc EXCEPT ![t] = "idle"]
    /\ vr0' = [vr0 EXCEPT ![t] = NewRecorder(0, 0)]
    /\ targs' = [targs EXCEPT ![t] = <<>>]
    /\ UNCHANGED <<vr, nframes>>
    /\ LockFrame

\* trigger_recording, line 76: the lock is taken
TrigLock ==
    /\ rpc["trigger"] = "idle"
    /\ can_acquire(lock)
    /\ \E alert_types \in AlertTypes, snap \in BOOLEAN, outcome \in Outcomes :
         targs' = [targs EXCEPT !["trigger"] =
                      [alert_types |-> alert_types, snapshot_sequence |-> snap,
                       outcome |-> outcome]]
    /\ lock' = "trigger"
    /\ rpc' = [rpc EXCEPT !["trigger"] = "snapshot"]
    /\ vr0' = [vr0 EXCEPT !["trigger"] = vr]
    /\ UNCHANGED <<vr, nframes>>
    /\ LockFrame

\* trigger_recording, lines 77-95
TrigSnapshot ==
    /\ rpc["trigger"] = "snapshot"
    /\ vr' = trigger_snapshot(
                [vr EXCEPT !.last_alert_types = targs["trigger"].alert_types],
                targs["trigger"].snapshot_sequence, now)
    /\ rpc' = [rpc EXCEPT !["trigger"] = "video"]
    /\ UNCHANGED <<lock, nframes, vr0, targs>>
    /\ LockFrame

\* trigger_recording, lines 98-105
TrigVideo ==
    /\ rpc["trigger"] = "video"
    /\ IF vr.is_recording
       THEN /\ vr' = trigger_extend(vr)
            /\ rpc' = [rpc EXCEPT !["trigger"] = "unlock"]
       ELSE /\ vr' = trigger_begin(vr)
            /\ rpc' = [rpc EXCEPT !["trigger"] = "open"]
    /\ UNCHANGED <<lock, nframes, vr0, targs>>
    /\ LockFrame

\* trigger_recording, lines 107-128; an OSError of os.makedirs leaves the
\* with block, which releases the lock
TrigOpen ==
    /\ rpc["trigger"] = "open"
    /\ IF targs["trigger"].outcome = "makedirs_error"
       THEN /\ UNCHANGED vr
            /\ rpc' = [rpc EXCEPT !["trigger"] = "unlock"]
       ELSE /\ vr' = trigger_open(vr, targs["trigger"].alert_types, now,
                                  targs["trigger"].outcome)
            /\ rpc' = [rpc EXCEPT !["trigger"] =
                          IF targs["trigger"].outcome = "ok"
                          THEN "drain" ELSE "unlock"]
    /\ UNCHANGED <<lock, nframes, vr0, targs>>
    /\ LockFrame

\* trigger_recording, lines 130-133
TrigDrain ==
    /\ rpc["trigger"] = "drain"
    /\ vr' = trigger_drain(vr)
    /\ rpc' = [rpc EXCEPT !["trigger"] = "unlock"]
    /\ UNCHANGED <<lock, nframes, vr0, targs>>
    /\ LockFrame

AddUnlock == Unlock("adder")

TrigUnlock == Unlock("trigger")

LockNext ==
    \/ AddLock \/ AddAppend \/ AddRecord \/ AddSnapshot \/ AddUnlock
    \/ TrigLock \/ TrigSnapshot \/ TrigVideo \/ TrigOpen \/ TrigDrain
    \/ TrigUnlock

----------------------------------------------------------------------------
(* bus_call: the messages of the pipeline bus, handled on the main loop *)

\* CAMERA_MAP.get(i, f"UNKNOWN_CAM_{i}")
camera_of(i) ==
    CASE i = 0 -> "RECEPTION_AREA"
      [] i = 1 -> "EMPLOYEE_AREA"
      [] i = 2 -> "BOSS_CABIN"
      [] i = 3 -> "CAFETERIA"
      [] OTHER -> "UNKNOWN_CAM_" \o ToString(i)

\* error_context = source name and debug string: bin says "uri-decode-bin-"
\* occurs in it, index is <<i>> when digits i follow it (what re.search finds)
Contexts ==
    {[bin |-> FALSE, index |-> <<>>], [bin |-> TRUE, index |-> <<>>]}
    \cup {[bin |-> TRUE, index |-> <<i>>] : i \in 0 .. MaxSource}

Messages == [type : {"EOS", "WARNING", "ERROR", "STATE_CHANGED"}, context : Contexts]

\* lines 399-411 and 438-450
alert_payload(kind, stream_index) ==
    [alerts |-> kind, cam_id |-> camera_of(stream_index), src_id |-> stream_index]

\* mutant of bus_call: the camera branch of an ERROR does not return and runs
\* on into loop.quit()
bus_call_runs_on(message) ==
    LET named == message.context.bin /\ message.context.index # <<>>
    IN CASE message.type = "EOS" -> [payload |-> NoPayload, quit |-> TRUE]
         [] message.type = "WARNING" ->
              [payload |-> IF named
                           THEN alert_payload("CAMERA_WARNING", message.context.index[1])
                           ELSE NoPayload,
               quit |-> FALSE]
         [] message.type = "ERROR" ->
              [payload |-> IF named
                           THEN alert_payload("CAMERA_OFFLINE", message.context.index[1])
                           ELSE NoPayload,
               quit |-> TRUE]
         [] OTHER -> [payload |-> NoPayload, quit |-> FALSE]

\* bus_call: the record handed to write_json_log, if any, and whether
\* loop.quit() is called
bus_call(message) ==
    LET named == message.context.bin /\ message.context.index # <<>>
    IN CASE message.type = "EOS" -> [payload |-> NoPayload, quit |-> TRUE]
         [] message.type = "WARNING" ->
              [payload |-> IF named
                           THEN alert_payload("CAMERA_WARNING", message.context.index[1])
                           ELSE NoPayload,
               quit |-> FALSE]
         [] message.type = "ERROR" ->
              [payload |-> IF named
                           THEN alert_payload("CAMERA_OFFLINE", message.context.index[1])
                           ELSE NoPayload,
               quit |-> ~named]
         [] OTHER -> [payload |-> NoPayload, quit |-> FALSE]

BusInit ==
    /\ LogUnused
    /\ RecUnused
    /\ ProbeUnused
    /\ EvalUnused
    /\ LockUnused

\* one message handled; write_ok is whether write_json_log could write (it
\* swallows its own exceptions, lines 155-156)
BusCall ==
    /\ phase = "playing"
    /\ Len(logged) < MaxRecords
    /\ \E message \in Messages, write_ok \in BOOLEAN :
         LET b == bus_call(message)
             writes == b.payload # NoPayload /\ write_ok
         IN /\ inp' = message
            /\ res' = [payload |-> b.payload, quit |-> b.quit, write_ok |-> write_ok]
            /\ file' = IF writes THEN write_json_log(file, b.payload.alerts) ELSE file
            /\ logged' = IF writes THEN Append(logged, b.payload.alerts) ELSE logged
            /\ phase' = IF b.quit THEN "terminated" ELSE phase
    /\ UNCHANGED <<log_init, th>>
    /\ UNCHANGED <<cam, last_heartbeat_time, last_alert_time, out, nbatch,
                   hb_times, sup_times, batch, env, ev_times, trig_calls>>
    /\ UNCHANGED recVars
    /\ UNCHANGED lockVars

BusNext == BusCall

vars == <<vr, now, nframes, rec_start, extended, bursts,
          file, log_init, logged, th,
          cam, last_heartbeat_time, last_alert_time, out, nbatch,
          hb_times, sup_times, batch, env, ev_times, trig_calls, phase,
          inp, res, lock, rpc, vr0, targs>>

Spec == RecInit /\ [][RecNext]_vars

SpecLog == LogInit /\ [][LogNext]_vars

SpecLogConc == ConcInit /\ [][ConcNext]_vars

SpecProbe == ProbeInit /\ [][ProbeNext]_vars

SpecPolicy == PolicyInit /\ [][PolicyNext]_vars

SpecFilter == FilterInit /\ [][FilterNext]_vars

SpecMain == ProbeInit /\ [][MainNext]_vars

SpecLock == LockInit /\ [][LockNext]_vars

SpecBus == BusInit /\ [][BusNext]_vars

SpecArtifacts == ArtInit /\ [][ArtNext]_vars

----------------------------------------------------------------------------
(* Claims about the VideoRecorder, checked under Spec *)

\* the camera is Active and its output is open
Active == vr.is_recording /\ vr.active_writer = "Open"

\* frames the current output received from add_frame after it was opened
PostWritten == Len(vr.written) - Min(rec_start[1], vr.buffer_len)

\* a step of trigger_recording: neither a frame arrives nor the clock moves
TriggerStep == nframes' = nframes /\ now' = now

\* C1: a trigger on an Idle camera whose output opens makes the camera Active
\* and writes exactly the ring buffer of that moment, oldest first, each frame
\* once; every frame added afterwards while Active follows in arrival order.
C1_DrainThenAppend ==
    /\ rec_start = <<nframes>> =>
          /\ Active
          /\ vr.written = vr.frame_buffer
          /\ vr.written = MostRecent(nframes, vr.buffer_len)
    /\ Active =>
          /\ rec_start # <<>>
          /\ vr.written = MostRecent(rec_start[1], vr.buffer_len)
                            \o Range(rec_start[1] + 1, nframes)

\* C1 witness: an output opened after the buffer had overflowed (two buffered
\* frames drained) and a later frame was appended while Active.
C1_Witness ==
    /\ Active
    /\ rec_start # <<>>
    /\ rec_start[1] > vr.buffer_len
    /\ vr.buffer_len >= 2
    /\ nframes > rec_start[1]
    /\ Len(vr.written) >= 3

\* C2 (as claimed): a recording that no later trigger extended receives exactly
\* post_event_seconds*fps frames from add_frame, for every configured value
\* including 0 and 1: never more while Active, exactly that many once closed.
C2_ExactPostFrames ==
    (rec_start # <<>> /\ ~extended) =>
        /\ Active => PostWritten <= vr.post_frames
        /\ ~vr.is_recording => PostWritten = vr.post_frames

\* C2 restricted to post_event_seconds*fps >= 1, where the code agrees: the
\* output is closed by the add_frame that brings the counter to zero and
\* later frames are not written.
C2_ExactPostFramesPositive ==
    (rec_start # <<>> /\ ~extended /\ vr.post_frames >= 1) =>
        /\ Active => /\ PostWritten < vr.post_frames
                     /\ vr.remaining_frames_to_record = vr.post_frames - PostWritten
        /\ ~vr.is_recording => /\ PostWritten = vr.post_frames
                               /\ vr.active_writer # "Open"

\* C3: a trigger while Active sets the remaining counter to exactly
\* post_event_seconds*fps (not below its former value, not above the ceiling),
\* keeps the output handle and file name, and writes no frame to the output.
C3_ExtendKeepsOutput ==
    [][(TriggerStep /\ vr.is_recording) =>
         /\ vr'.remaining_frames_to_record = vr.post_frames
         /\ vr'.remaining_frames_to_record >= vr.remaining_frames_to_record
         /\ vr'.is_recording
         /\ vr'.active_writer = vr.active_writer
         /\ vr'.active_filename = vr.active_filename
         /\ vr'.written = vr.written]_vars

\* C3 witness: an Active recording that has already consumed frames is back
\* at the full counter after a second trigger.
C3_Witness ==
    /\ Active
    /\ extended
    /\ nframes > rec_start[1]
    /\ vr.post_frames >= 2
    /\ vr.remaining_frames_to_record = vr.post_frames

\* C4: the ring buffer never exceeds buffer_seconds*fps frames and holds exactly
\* the most recent min(frames added, capacity) frames in arrival order; this
\* holds after trigger_recording too, which therefore leaves the buffer alone.
C4_RingBuffer ==
    /\ Len(vr.frame_buffer) <= vr.buffer_len
    /\ vr.frame_buffer = MostRecent(nframes, vr.buffer_len)

\* C4 witness: a buffer of capacity 2 that has evicted frames, seen after a
\* recording was started from it.
C4_Witness ==
    /\ vr.buffer_len = 2
    /\ nframes > 3
    /\ rec_start # <<>>
    /\ rec_start[1] >= 3
    /\ Len(vr.frame_buffer) = 2

\* C5: any two snapshot bursts that start are more than snapshot_cooldown
\* seconds apart; a trigger within the cooldown of the last burst starts none.
C5_BurstsApart ==
    \A i, j \in DOMAIN bursts :
        i < j => bursts[j] - bursts[i] > SNAPSHOT_COOLDOWN

\* C5 witness: a second burst has started.
C5_Witness == Len(bursts) >= 2

----------------------------------------------------------------------------
(* Claims about write_json_log *)

\* no call of write_json_log is under way
AllIdle == \A p \in 1..NThreads : th[p].pc = "idle"

\* the number of times r occurs in the sequence s
Count(s, r) == Cardinality({i \in DOMAIN s : s[i] = r})

\* the two sequences hold the same records, each as often
SameRecords(s, t) ==
    /\ Len(s) = Len(t)
    /\ \A r \in Records : Count(s, r) = Count(t, r)

\* C6 (as claimed): once the concurrent calls of write_json_log have all
\* returned, the log is a well-formed JSON array holding exactly the records
\* written, none lost and none corrupted.  Stated for the log that starts as
\* the fresh '[]'.
C6_ConcurrentAppendsKept ==
    (log_init = EmptyArray /\ AllIdle /\ logged # <<>>) =>
        /\ WellFormed(file)
        /\ SameRecords(ParseLog(file), logged)

\* the characters before the closing bracket the call found stay as they were
PrefixKept ==
    LET pos == find_bracket(file, Len(file))
    IN /\ Len(file') >= pos
       /\ \A i \in 1..pos : file'[i] = file[i]

\* C7: from the initial content '[]', after any number of completed calls made
\* one after the other the file is a valid JSON array of exactly the records
\* written, in call order (so the first went in without a leading comma and
\* each later one with it), and no call rewrote a byte before the closing
\* bracket it found.
C7_SequentialAppends ==
    /\ [](log_init = EmptyArray => ParseLog(file) = logged)
    /\ [][log_init = EmptyArray => PrefixKept]_vars

\* C7 witness: three records appended to the fresh file, all read back.
C7_Witness ==
    /\ log_init = EmptyArray
    /\ Len(logged) = 3
    /\ logged[1] # logged[2]
    /\ ParseLog(file) = logged

\* C8 (as claimed): a call that finds the file without its terminator or
\* otherwise corrupt resets it to an array of the new record alone, and after
\* every call the file is well-formed.
C8_CorruptIsReset ==
    /\ (~WellFormed(log_init) /\ Len(logged) = 1) => ParseLog(file) = logged
    /\ logged # <<>> => WellFormed(file)

\* What the code does guarantee: a file holding no ']' at all is reset to an
\* array of the new record alone.
C8_NoBracketIsReset ==
    ((\A i \in DOMAIN log_init : log_init[i] # "]") /\ logged # <<>>)
        => ParseLog(file) = logged

----------------------------------------------------------------------------
(* Claims about the decision engine, checked under SpecProbe *)

\* C9 (as claimed): a heartbeat never fires within heartbeat_interval_seconds
\* of the previous heartbeat of the camera, nor within that interval of an
\* earlier EVENT emission that suppressed a heartbeat that was due.
C9_HeartbeatSpacing ==
    /\ \A i, j \in DOMAIN hb_times :
          i < j => hb_times[j] - hb_times[i] >= HEARTBEAT_INTERVAL
    /\ \A i \in DOMAIN hb_times, k \in DOMAIN sup_times :
          sup_times[k] <= hb_times[i]
              => hb_times[i] - sup_times[k] >= HEARTBEAT_INTERVAL

\* C9 (amended): a heartbeat never fires within heartbeat_interval_seconds of
\* the previous heartbeat of the camera.
C9_HeartbeatsApart ==
    \A i, j \in DOMAIN hb_times :
        i < j => hb_times[j] - hb_times[i] >= HEARTBEAT_INTERVAL

\* C9 witness: two heartbeats have fired, the first of them right after an
\* EVENT had taken its place.
C9_Witness ==
    /\ Len(hb_times) >= 2
    /\ sup_times # <<>>

\* a step of the probe: one more batch processed
ProbeStep == nbatch' = nbatch + 1

\* C10: a batch for which the event limiter and the heartbeat limiter are both
\* eligible emits exactly one record, an EVENT, and leaves the camera's
\* last-heartbeat time alone, so the heartbeat is still due afterwards; and no
\* batch writes more than one record.
C10_EventTakesPriority ==
    [][ProbeStep =>
         /\ Len(logged') <= Len(logged) + 1
         /\ (/\ batch'.gate
             /\ batch'.is_event
             /\ now - last_alert_time[cam] >= ALERT_COOLDOWN
             /\ now - last_heartbeat_time[cam] >= HEARTBEAT_INTERVAL)
            => /\ out'.type = "EVENT"
               /\ logged' = Append(logged, "EVENT")
               /\ last_heartbeat_time' = last_heartbeat_time
               /\ now' - last_heartbeat_time'[cam] >= HEARTBEAT_INTERVAL]_vars

\* C10 witness: an EVENT was emitted while a heartbeat was due, and the
\* heartbeat is still due.
C10_Witness ==
    /\ out.type = "EVENT"
    /\ sup_times # <<>>
    /\ sup_times[Len(sup_times)] = now
    /\ now - last_heartbeat_time[cam] >= HEARTBEAT_INTERVAL

\* C11: for one camera any two EVENT emissions are at least ALERT_COOLDOWN
\* apart; an EVENT is emitted only for a batch whose trigger tags are not
\* empty; each emission sets the camera's last-alert time to the time of the
\* emission, and nothing else changes the last-alert times.
C11_EventCooldown ==
    /\ [](\A i, j \in DOMAIN ev_times :
             i < j => ev_times[j] - ev_times[i] >= ALERT_COOLDOWN)
    /\ [][(ProbeStep /\ Len(ev_times') > Len(ev_times))
            => /\ batch'.is_event
               /\ out'.type = "EVENT"
               /\ out'.triggers # <<>>
               /\ last_alert_time' = [last_alert_time EXCEPT ![cam] = now]]_vars
    /\ [][last_alert_time' # last_alert_time
            => ProbeStep /\ Len(ev_times') > Len(ev_times)]_vars

\* C11 witness: two EVENT emissions exactly one cooldown apart.
C11_Witness ==
    /\ Len(ev_times) >= 2
    /\ ev_times[2] - ev_times[1] = ALERT_COOLDOWN
    /\ last_alert_time[cam] = ev_times[2]

\* no detection of non-negative confidence carries a countable label
NoCountable(objs) ==
    \A i \in DOMAIN objs :
        objs[i].negative \/ lower(objs[i].label) \notin {"person", "tv"}

\* C13: a batch in which, negative confidences discarded, no detection has a
\* countable label writes no record, does not call trigger_recording and
\* leaves the last-alert and last-heartbeat times alone, whatever other
\* labels and policy violations are present.
C13_NoCountableNoEffect ==
    [][(ProbeStep /\ NoCountable(batch'.objs))
         => /\ out' = NoPayload
            /\ logged' = logged
            /\ file' = file
            /\ trig_calls' = trig_calls
            /\ bursts' = bursts
            /\ rec_start' = rec_start
            /\ last_alert_time' = last_alert_time
            /\ last_heartbeat_time' = last_heartbeat_time]_vars

\* C13 witness: a batch holding a fire and nothing countable, on the
\* restricted weekday and with both limiters eligible, has passed without a
\* record.
C13_Witness ==
    /\ nbatch >= 1
    /\ NoCountable(batch.objs)
    /\ \E i \in DOMAIN batch.objs :
          batch.objs[i].label = "fire" /\ ~batch.objs[i].negative
    /\ env.today.weekday = SUNDAY
    /\ now - last_alert_time[cam] >= ALERT_COOLDOWN
    /\ now - last_heartbeat_time[cam] >= HEARTBEAT_INTERVAL
    /\ out = NoPayload
    /\ logged = <<>>

----------------------------------------------------------------------------
(* Claims about check_policy_violation, checked under SpecPolicy *)

\* tag t is among the alerts returned
Has(alerts, t) == \E i \in DOMAIN alerts : alerts[i] = t

\* minutes since midnight
MinuteOfDay(dt) == dt.hour * 60 + dt.minute

\* C14: the weekday tag is returned if and only if the day is Sunday and the
\* camera is not the restricted-hours camera; the restricted-hours camera
\* never gets it, so outside its window it carries exactly one tag.
C14_WeekdayTag ==
    res # NoResult =>
        /\ Has(res.alerts, "RESTRICTED_ACCESS_SUNDAY")
             <=> (inp.dt.weekday = SUNDAY /\ inp.camera # "BOSS_CABIN")
        /\ (/\ inp.camera = "BOSS_CABIN"
            /\ (inp.dt.hour < BOSS_CABIN_OPEN_HOUR
                \/ inp.dt.hour >= BOSS_CABIN_CLOSE_HOUR))
           => res.alerts = <<"RESTRICTED_ACCESS_BOSS_CABIN">>

\* C15: for the restricted-hours camera on a day other than Sunday the
\* restricted tag is present exactly outside the half-open window: the result
\* is the one restricted tag at 10:59 and empty at 12:00; it is empty all
\* through the window, its opening instant included, and is the single
\* restricted tag from the closing instant on.
C15_RestrictedWindow ==
    (res # NoResult /\ inp.camera = "BOSS_CABIN" /\ inp.dt.weekday # SUNDAY) =>
        /\ (inp.dt.hour = 10 /\ inp.dt.minute = 59)
              => res.alerts = <<"RESTRICTED_ACCESS_BOSS_CABIN">>
        /\ (inp.dt.hour = 12 /\ inp.dt.minute = 0) => res.alerts = <<>>
        /\ (/\ MinuteOfDay(inp.dt) >= BOSS_CABIN_OPEN_HOUR * 60
            /\ MinuteOfDay(inp.dt) < BOSS_CABIN_CLOSE_HOUR * 60)
              => res.alerts = <<>>
        /\ MinuteOfDay(inp.dt) >= BOSS_CABIN_CLOSE_HOUR * 60
              => res.alerts = <<"RESTRICTED_ACCESS_BOSS_CABIN">>

\* what the code does guarantee for the restricted-hours camera: the tag is
\* present exactly outside [BOSS_CABIN_OPEN_HOUR:00, BOSS_CABIN_CLOSE_HOUR:00)
C15_WindowOfConstants ==
    (res # NoResult /\ inp.camera = "BOSS_CABIN") =>
        (Has(res.alerts, "RESTRICTED_ACCESS_BOSS_CABIN")
           <=> ~(/\ MinuteOfDay(inp.dt) >= BOSS_CABIN_OPEN_HOUR * 60
                 /\ MinuteOfDay(inp.dt) < BOSS_CABIN_CLOSE_HOUR * 60))

----------------------------------------------------------------------------
(* Claims about the reading of a frame's object list, checked under SpecFilter *)

\* the object list with its detections of negative confidence removed
NonNegative(objs) == SelectSeq(objs, LAMBDA o : ~o.negative)

\* C12: a detection of negative confidence is discarded before any counting
\* or triggering: people_count, the detections list, the countable gate and
\* the trigger tags (is_event) of a batch are those of the batch with all
\* negative-confidence detections removed.
C12_NegativeDiscarded ==
    res # NoResult =>
        LET clean == analyze(inp.camera, inp.dt, NonNegative(inp.objs))
        IN /\ res.people_count = clean.people_count
           /\ res.detections = clean.detections
           /\ res.gate = clean.gate
           /\ res.triggers = clean.triggers
           /\ res.is_event = clean.is_event
           /\ \A i \in DOMAIN res.detections : ~res.detections[i].negative

\* C12 witness: a list of a re-emitted person and a fire was read as a fire
\* alone: nobody counted, the gate shut.
C12_Witness ==
    /\ res # NoResult
    /\ inp.objs = <<Det("person", TRUE), Det("fire", FALSE)>>
    /\ res.people_count = 0
    /\ ~res.gate
    /\ res.detections = <<Det("fire", FALSE)>>

----------------------------------------------------------------------------
(* Claims about the capture trigger of an EVENT, checked under SpecProbe *)

\* the probe has just called trigger_recording
TriggerCalled == ProbeStep /\ Len(trig_calls') = Len(trig_calls) + 1

LastCall(calls) == calls[Len(calls)]

\* C17: when the output cannot be allocated during trigger_recording on an
\* idle camera (the directory cannot be made, or the writer does not open),
\* the call returns without raising and the camera is idle afterwards.
C17_FailedStartStaysIdle ==
    [][(TriggerCalled /\ LastCall(trig_calls').idle /\ env.storage # "ok")
         => /\ ~LastCall(trig_calls').raised
            /\ ~vr'.is_recording]_vars

\* what the code does guarantee: a writer that does not open leaves the
\* camera idle and raises nothing
C17_OpenFailureStaysIdle ==
    [][(TriggerCalled /\ LastCall(trig_calls').idle /\ env.storage = "open_failed")
         => /\ ~LastCall(trig_calls').raised
            /\ ~vr'.is_recording]_vars

\* C18: on every EVENT emission trigger_recording is called once, with the
\* batch's trigger tags and snapshots requested, and the record tells whether
\* the call succeeded: capture_triggered is true only when the camera is
\* recording after the call.
C18_CaptureTriggeredIsTrue ==
    [][(ProbeStep /\ out'.type = "EVENT")
         => /\ TriggerCalled
            /\ LastCall(trig_calls').alert_types = out'.triggers
            /\ LastCall(trig_calls').snapshot_sequence
            /\ out'.capture_triggered = "true" => vr'.is_recording]_vars

\* what the code does guarantee: one call per EVENT with the batch's tags, and
\* capture_triggered exactly when the call did not raise
C18_CaptureTriggeredIsNoRaise ==
    [][(ProbeStep /\ out'.type = "EVENT")
         => /\ TriggerCalled
            /\ LastCall(trig_calls').alert_types = out'.triggers
            /\ LastCall(trig_calls').snapshot_sequence
            /\ out'.capture_triggered = "true" <=> ~LastCall(trig_calls').raised]_vars

----------------------------------------------------------------------------
(* Claims about shutdown, checked under SpecMain *)

\* C19: on shutdown every camera whose recording is still active has its
\* output flushed and released before the process ends: no terminal state
\* has a camera with an open output.
C19_ShutdownReleasesOutputs ==
    phase = "terminated" => (vr.active_writer # "Open" /\ ~vr.is_recording)

\* what the code does guarantee: nothing is triggered after shutdown
C19_NoTriggerAfterShutdown ==
    [][phase = "terminated" => (trig_calls' = trig_calls /\ vr' = vr)]_vars

----------------------------------------------------------------------------
(* Claims about the recorder's lock, checked under SpecLock *)

\* thread t is between the acquire and the release of the lock
Inside(t) == rpc[t] # "idle"

\* C20: add_frame and trigger_recording of one camera exclude each other:
\* under every interleaving of the two threads the two calls never overlap,
\* and each call leaves the recorder as the same call run alone would have
\* left the recorder it found, so the outcome is that of the calls in the
\* order in which they took the lock.
C20_MutualExclusion ==
    /\ ~(Inside("adder") /\ Inside("trigger"))
    /\ \A t \in Threads : Inside(t) => lock = t
    /\ rpc["adder"] = "unlock"
          => vr = add_frame(vr0["adder"], targs["adder"][1])
    /\ rpc["trigger"] = "unlock"
          => vr = trigger_recording(vr0["trigger"], targs["trigger"].alert_types,
                                    targs["trigger"].snapshot_sequence, now,
                                    targs["trigger"].outcome)

\* C20 witness: trigger_recording has drained a buffer of two frames into a
\* new output and is about to release the lock, a third frame's add_frame
\* having had to wait.
C20_Witness ==
    /\ rpc["trigger"] = "unlock"
    /\ lock = "trigger"
    /\ rpc["adder"] = "idle"
    /\ vr.active_writer = "Open"
    /\ Len(vr.written) = 2
    /\ vr.written = vr.frame_buffer
    /\ nframes < MaxFrames

----------------------------------------------------------------------------
(* Claims about bus_call, checked under SpecBus *)

\* the message names a camera source
NamesCamera(message) ==
    message.type \in {"WARNING", "ERROR"} /\ message.context.index # <<>>

KindOf(message) ==
    IF message.type = "WARNING" THEN "CAMERA_WARNING" ELSE "CAMERA_OFFLINE"

\* C21: a WARNING or ERROR message that names a camera source appends one
\* CAMERA_WARNING or CAMERA_OFFLINE record with that camera's id and never
\* quits the main loop, also when the log write fails; an ERROR quits the loop
\* only when it names no camera source.
C21_CameraMessageIsLogged ==
    [][/\ NamesCamera(inp') =>
            /\ phase' = "playing"
            /\ res'.payload.alerts = KindOf(inp')
            /\ res'.payload.cam_id = camera_of(inp'.context.index[1])
            /\ res'.write_ok =>
                  /\ logged' = Append(logged, KindOf(inp'))
                  /\ ParseLog(file') = Append(ParseLog(file), KindOf(inp'))
            /\ ~res'.write_ok => (logged' = logged /\ file' = file)
       /\ (inp'.type = "ERROR" /\ phase' = "terminated")
             => inp'.context.index = <<>>]_vars

\* C21 witness: an ERROR naming source 2 was handled while the log could not
\* be written, and the loop still runs.
C21_Witness ==
    /\ res # NoResult
    /\ inp.type = "ERROR"
    /\ inp.context.index = <<2>>
    /\ res.payload.cam_id = "BOSS_CABIN"
    /\ ~res.write_ok
    /\ phase = "playing"
    /\ Len(logged) >= 1

----------------------------------------------------------------------------
(* Claims about the snapshot burst, checked under Spec *)

\* the frames and labels of the images persisted since the last burst began
Shots(r) == [i \in 1 .. Len(r.images) |-> <<r.images[i].frame, r.images[i].label>>]

\* what a burst start persists from frame buffer buf
PrevCurr(buf) ==
    LET n == Len(buf)
    IN (IF n >= 2 THEN <<(<<buf[n - 1], "prev">>)>> ELSE <<>>)
       \o (IF n >= 1 THEN <<(<<buf[n], "curr">>)>> ELSE <<>>)

BurstStep == bursts' # bursts

FrameStep == nframes' = nframes + 1

\* C22: a trigger that starts a burst persists prev (if 2 frames are buffered)
\* and curr (if 1 is) and sets the pending counter to 2; each of the next two
\* frames given to add_frame is persisted once as seq and decrements the
\* counter; with the counter at 0 nothing is persisted until a new burst
\* starts; a burst holds at most 4 images.
C22_SnapshotBurst ==
    [][/\ BurstStep =>
            /\ Shots(vr') = PrevCurr(vr.frame_buffer)
            /\ vr'.snapshot_frames_left = 2
       /\ (FrameStep /\ vr.snapshot_frames_left > 0) =>
            /\ Shots(vr') = Append(Shots(vr), <<nframes + 1, "seq">>)
            /\ vr'.snapshot_frames_left = vr.snapshot_frames_left - 1
       /\ (~BurstStep /\ vr.snapshot_frames_left = 0) =>
            /\ vr'.images = vr.images
            /\ vr'.snapshot_frames_left = 0
       /\ (~BurstStep /\ ~FrameStep) => vr'.images = vr.images
       /\ vr'.snapshot_frames_left \in 0 .. 2
       /\ Len(vr'.images) <= 4]_vars

\* C22 witness: a complete burst of prev, curr and two seq images of the two
\* frames that followed, with the counter back at 0.
C22_Witness ==
    /\ Len(bursts) = 1
    /\ Len(vr.images) = 4
    /\ vr.images[1].label = "prev"
    /\ vr.images[2].label = "curr"
    /\ vr.images[3].label = "seq"
    /\ vr.images[4].label = "seq"
    /\ vr.images[4].frame = vr.images[2].frame + 2
    /\ vr.images[3].frame = vr.images[2].frame + 1
    /\ vr.snapshot_frames_left = 0

----------------------------------------------------------------------------
(* Claims about a trigger that starts no burst, checked under SpecLock *)

\* the running trigger_recording call starts no burst: snapshots were not
\* requested, or the cooldown has not elapsed since the last burst
NoBurstCall ==
    /\ rpc["trigger"] # "idle"
    /\ \/ ~targs["trigger"].snapshot_sequence
       \/ now - vr0["trigger"].last_snapshot_time <= SNAPSHOT_COOLDOWN

\* C23: a trigger_recording call that starts no snapshot burst persists no
\* image and leaves last_snapshot_time and the pending counter as they were,
\* and still starts or extends the recording; add_frame never changes
\* last_snapshot_time.
C23_NoBurstNoSnapshot ==
    /\ NoBurstCall =>
         /\ vr.images = vr0["trigger"].images
         /\ vr.last_snapshot_time = vr0["trigger"].last_snapshot_time
         /\ vr.snapshot_frames_left = vr0["trigger"].snapshot_frames_left
         /\ rpc["trigger"] = "unlock" =>
              /\ vr0["trigger"].is_recording =>
                   /\ vr.is_recording
                   /\ vr.remaining_frames_to_record = vr.post_frames
              /\ (~vr0["trigger"].is_recording /\ targs["trigger"].outcome = "ok") =>
                   /\ vr.is_recording
                   /\ vr.active_writer = "Open"
                   /\ vr.remaining_frames_to_record = vr.post_frames
                   /\ vr.written = vr.frame_buffer
    /\ rpc["adder"] # "idle" =>
         vr.last_snapshot_time = vr0["adder"].last_snapshot_time

\* C23 witness: a call that asked for snapshots within the cooldown of an
\* earlier burst has started a recording and persisted nothing.
C23_Witness ==
    /\ rpc["trigger"] = "unlock"
    /\ targs["trigger"].snapshot_sequence
    /\ targs["trigger"].outcome = "ok"
    /\ vr0["trigger"].last_snapshot_time = now
    /\ Len(vr0["trigger"].images) >= 3
    /\ ~vr0["trigger"].is_recording
    /\ vr.is_recording
    /\ vr.images = vr0["trigger"].images

----------------------------------------------------------------------------
(* Claims about the output handle, checked under Spec *)

\* C24: an Idle camera holds no open output handle; every step from Active
\* to Idle leaves the handle released; a trigger that starts a new recording
\* never finds an open handle to replace.
C24_HandleReleased ==
    [][/\ ~vr'.is_recording => vr'.active_writer # "Open"
       /\ (vr.is_recording /\ ~vr'.is_recording) => vr'.active_writer = "None"
       /\ (TriggerStep /\ ~vr.is_recording) => vr.active_writer # "Open"]_vars

\* C24 witness: a recording was started, written to and stopped, and the
\* camera is Idle without a handle.
C24_Witness ==
    /\ rec_start # <<>>
    /\ ~vr.is_recording
    /\ Len(vr.written) > Len(vr.frame_buffer)
    /\ vr.active_writer = "None"

----------------------------------------------------------------------------
(* Claims about the files of one camera, checked under SpecArtifacts *)

\* C25: any two recordings started for the same camera receive different
\* file paths, also with the same tags within the same clock second.
C25_PathsNeverCollide ==
    \A i, j \in 1 .. Len(res.paths) :
        i # j => res.paths[i] # res.paths[j]

\* C27: all images of one snapshot burst carry the same tag list, that of the
\* trigger that started the burst.
C27_BurstKeepsTags ==
    \A i, j \in 1 .. Len(vr.images) : vr.images[i].tags = vr.images[j].tags

----------------------------------------------------------------------------
(* Claims about the writer of an Active camera, checked under Spec *)

\* C26: in every reachable state in which the recording is Active, the camera
\* holds an open output handle, whatever the outcomes of the starts were.
C26_ActiveHasWriter == vr.is_recording => vr.active_writer = "Open"

----------------------------------------------------------------------------
(* Claims about the status of a record, checked under SpecProbe *)

\* C28: a METRIC record, whose status is SAFE, is emitted only for a batch
\* with no trigger tag; a batch with a policy violation or a visual trigger
\* never produces a record with status SAFE, also during the event cooldown.
C28_SafeOnlyWithoutTriggers ==
    (out.type = "METRIC" \/ (out.type # "NONE" /\ out.status = "SAFE"))
        => ~batch.is_event

=============================================================================
